---- MODULE Spec2Model ----
(***************************************************************************)
(* TOTP credential lifecycle of adjutant-mfa.                              *)
(*                                                                         *)
(* EditMFAAction (adjutant-plugin/mfa_actions/models.py) run against the   *)
(* identity service's credential store.  An action instance is a record    *)
(* `a'; every store call of a handler is one step of `step', and a whole   *)
(* request is `run' (the steps taken without interruption).                *)
(*                                                                         *)
(* Time is in seconds.  A secret is a base32 text, kept as the key bytes it *)
(* spells (an integer key id), the number of its base32 characters and the *)
(* number of '=' after them; a passcode is a sequence of decimal digits.   *)
(***************************************************************************)
EXTENDS Integers, Sequences, FiniteSets, TLC

VARIABLES
    store,       \* the credential store: sequence of credentials, in listing order
    now,         \* the UTC clock, seconds
    ticks,       \* number of clock advances so far (bounds the clock)
    nextSecret,  \* the next secret os.urandom will produce
    procs,       \* requests in flight, one action instance per worker
    codec,       \* the last call of a passcode generator, and what it gave
    tasks,       \* the edit_mfa tasks, in the order they were created
    posts        \* the EditMFA request in flight, or the last response

vars == <<store, now, ticks, nextSecret, procs, codec, tasks, posts>>

----------------------------------------------------------------------------
(* Bounds *)

MaxSecrets == 3
MaxTicks == 2
MaxCreds == 2
MaxWindows == 2
MaxClock == 65
MaxTasks == 2

(* Program constants *)

cred_expiry == 15
PASSCODE_LENGTH == 6
PASSCODE_TIME_PERIOD == 30

Users == {"u1", "u2"}
\* a user id the identity service does not know
GhostUser == "ghost"
Workers == {"w1", "w2"}

\* the values os.urandom yields, one after another
Secrets == 1..MaxSecrets

----------------------------------------------------------------------------
(* Base32 texts *)

\* A text of `chars' characters followed by `pads' '=' signs.  `clean' says
\* that the characters are all base32 digits (A-Z, 2-7), and `key' names the
\* bytes they spell.
B32Text(key, chars, pads, clean) ==
    [key |-> key, chars |-> chars, pads |-> pads, clean |-> clean]

\* the empty text; like False, it is falsy in Python
NoSecret == B32Text(0, 0, 0, TRUE)

\* the corrupt blob of the tests, '0': one character that is no base32 digit
CorruptText == B32Text(0, 1, 0, FALSE)

URandomBytes == 20

\* the least number of characters that spell n bytes, 5 bits a character
CharsFor(n) == (n * 8 + 4) \div 5

\* base64.b32encode(os.urandom(20)).decode('utf-8'): 32 characters, no '='
b32encode(key) == B32Text(key, CharsFor(URandomBytes), 0, TRUE)

\* while len(secret) % 8 != 0: secret = secret + b'='
PadToEight(text) ==
    [text EXCEPT !.pads = @ + ((8 - ((text.chars + text.pads) % 8)) % 8)]

\* base64.b32decode raises: a character that is no base32 digit, a length
\* that is no multiple of 8, or a number of trailing '=' that no byte
\* count leaves
b32decode_raises(text) ==
    \/ ~text.clean
    \/ (text.chars + text.pads) % 8 # 0
    \/ text.pads \notin {0, 1, 3, 4, 6}

\* the number of bytes b32decode returns
DecodedLen(text) == (text.chars * 5) \div 8

\* TOTP(decoded, ...) raises ValueError for a key shorter than 128 bits
MinKeyBytes == 16
totp_key_too_short(text) == DecodedLen(text) < MinKeyBytes

\* generate_totp_passcode(secret) raises instead of returning a passcode
generate_raises(secret) ==
    b32decode_raises(PadToEight(secret)) \/ totp_key_too_short(secret)

----------------------------------------------------------------------------
(* Passcodes *)

\* token_data.get('passcode'): missing, a string of digits, or a JSON number,
\* kept with the characters str() gives for it
NoPasscode == [kind |-> "none", s |-> <<>>]
StrPasscode(digits) == [kind |-> "str", s |-> digits]

\* str(n) of an integer 0 <= n < 10^6: its decimal digits, none in front
Decimal(n) ==
    LET k == IF n < 10 THEN 1 ELSE IF n < 100 THEN 2 ELSE IF n < 1000 THEN 3
             ELSE IF n < 10000 THEN 4 ELSE IF n < 100000 THEN 5 ELSE 6
        pow == [j \in 0..5 |-> IF j = 0 THEN 1 ELSE IF j = 1 THEN 10
                               ELSE IF j = 2 THEN 100 ELSE IF j = 3 THEN 1000
                               ELSE IF j = 4 THEN 10000 ELSE 100000]
    IN  [i \in 1..k |-> (n \div pow[k - i]) % 10]

IntPasscode(n) == [kind |-> "int", s |-> Decimal(n)]

\* Python truthiness of the submitted passcode (None, '' and 0 are falsy)
Truthy(p) ==
    \/ p.kind = "str" /\ p.s # <<>>
    \/ p.kind = "int" /\ p.s # <<0>>

\* str(passcode)
PyStr(p) == p.s

\* int(text) of a string of digits
RECURSIVE DigitsValue(_)
DigitsValue(digits) ==
    IF digits = <<>> THEN 0
    ELSE 10 * DigitsValue(SubSeq(digits, 1, Len(digits) - 1)) + digits[Len(digits)]

\* The HOTP value of a key and a counter: HMAC-SHA1 and dynamic truncation in
\* the cryptography library, here a fixed mixing function that is injective on
\* the keys and counters of the model.
Hotp(key, counter) == (key * 1000 + counter) % 1000000

\* the decimal string of n, zero-padded to PASSCODE_LENGTH digits
Pow10(k) == IF k = 0 THEN 1 ELSE IF k = 1 THEN 10 ELSE IF k = 2 THEN 100
            ELSE IF k = 3 THEN 1000 ELSE IF k = 4 THEN 10000 ELSE 100000
\* faulty variant: the decimal string without the zeros in front
ZeroPadded_bare(n) ==
    LET k == IF n < 10 THEN 1 ELSE IF n < 100 THEN 2 ELSE IF n < 1000 THEN 3
             ELSE IF n < 10000 THEN 4 ELSE IF n < 100000 THEN 5 ELSE 6
    IN [i \in 1..k |-> (n \div Pow10(k - i)) % 10]
ZeroPadded(n) == [i \in 1..PASSCODE_LENGTH |-> (n \div Pow10(PASSCODE_LENGTH - i)) % 10]

\* utils.generate_totp_passcode(secret), evaluated at clock time t, for a
\* secret it does not raise on
generate_totp_passcode(secret, t) ==
    ZeroPadded(Hotp(PadToEight(secret).key, t \div PASSCODE_TIME_PERIOD))

----------------------------------------------------------------------------
(* The credential store (user_store.IdentityManager) *)

\* What a blob's text is: "object", a JSON object holding 'secret' and
\* 'created'; "text", not JSON at all; "empty_object", a JSON object without
\* those keys; "scalar", a JSON value that is no object (a number, null)
BlobForms == {"object", "text", "empty_object", "scalar"}

\* json.dumps({'secret': secret, 'created': str(timezone.now())})
DraftBlob(secret, created) == [secret |-> secret, created |-> created, form |-> "object"]
\* the blob of a 'totp' credential is the bare secret
TotpBlob(secret) == [secret |-> secret, created |-> 0, form |-> "text"]

\* json.loads(blob) yields an object holding 'secret' and 'created'
json_loads_ok(blob) == blob.form = "object"

\* json.loads(blob)['created'] raises an exception that is neither ValueError
\* nor KeyError: subscripting a value that is no object is a TypeError
json_loads_uncaught(blob) == blob.form = "scalar"

Credential(user, type, blob) == [user |-> user, type |-> type, blob |-> blob]

\* 'cert' stands for the credential types that have nothing to do with TOTP
CredTypes == {"totp", "totp-draft", "cert"}

\* the store keeps, for each user and credential type, the credentials in the
\* order they were added, which is the order list_credentials returns them in
EmptyStore == [u \in Users |-> [ty \in CredTypes |-> <<>>]]

list_credentials(st, user, type) ==
    IF user \in Users THEN st[user][type] ELSE <<>>

add_credential(st, user, type, blob) ==
    [st EXCEPT ![user][type] = Append(@, Credential(user, type, blob))]

clear_credential_type(st, user, type) ==
    [st EXCEPT ![user][type] = <<>>]

InStore(st, cred) ==
    \E i \in 1..Len(st[cred.user][cred.type]) : st[cred.user][cred.type][i] = cred

RemoveFirst(seq, x) ==
    LET k == CHOOSE i \in 1..Len(seq) : seq[i] = x /\ \A j \in 1..(i-1) : seq[j] # x
    IN  [i \in 1..(Len(seq) - 1) |-> IF i < k THEN seq[i] ELSE seq[i + 1]]

\* removes the stored credential cred
delete_credential(st, cred) ==
    [st EXCEPT ![cred.user][cred.type] = RemoveFirst(@, cred)]

\* EditMFA.get: has_mfa
HasActiveMFA(st, user) == list_credentials(st, user, "totp") # <<>>

----------------------------------------------------------------------------
(* EditMFAAction *)

\* A fresh action instance serving one request.  RequestEnable/RequestDisable
\* run pre_approve then post_approve; ConfirmEnable/ConfirmDisable run submit.
NewAction(op, user, passcode) ==
    [op          |-> op,
     user        |-> user,
     delete      |-> op \in {"RequestDisable", "ConfirmDisable"},
     passcode    |-> passcode,
     pc          |-> IF op \in {"RequestEnable", "RequestDisable"}
                     THEN "pre_validate" ELSE "submit_validate",
     valid       |-> FALSE,
     errors      |-> "",
     creds       |-> <<>>,
     i           |-> 1,
     valid_cred  |-> FALSE,
     expiry_time |-> 0,
     secret      |-> NoSecret,
     used        |-> FALSE]

IdleAction == [NewAction("none", GhostUser, NoPasscode) EXCEPT !.pc = "idle"]

\* the handler has returned (or raised): only its outcome is kept
Returned(a, pc) ==
    [a EXCEPT !.pc = pc, !.creds = <<>>, !.i = 1, !.valid_cred = FALSE,
              !.expiry_time = 0, !.secret = NoSecret]

validate_target_user(a) == a.user \in Users

\* Faulty variant: the lookup of existing 'totp' credentials is skipped
validate_totp_enabled_unchecked(a, st) == TRUE

validate_totp_enabled(a, st) ==
    IF list_credentials(st, a.user, "totp") # <<>>
    THEN a.delete
    ELSE ~a.delete

validate(a, st) == validate_target_user(a) /\ validate_totp_enabled(a, st)

\* expiry_time = timezone.now() - timedelta(minutes=cred_expiry)
ExpiryTime(t) == t - cred_expiry * 60

\* Faulty variant: a draft exactly cred_expiry minutes old counts as expired
NotExpired_strict(cred, expiry_time) == cred.blob.created > expiry_time

\* cred_time >= expiry_time
NotExpired(cred, expiry_time) == cred.blob.created >= expiry_time

\* Faulty variant: the passcodes of the two preceding periods are accepted too
validate_passcode_trailing(secret, passcode, t) ==
    IF ~Truthy(passcode) \/ secret = NoSecret
    THEN FALSE
    ELSE \E k \in 0..2 :
            generate_totp_passcode(secret, t - k * PASSCODE_TIME_PERIOD) = PyStr(passcode)

\* Faulty variant: a missing or empty passcode passes for a match
validate_passcode_lenient(secret, passcode, t) ==
    IF secret = NoSecret
    THEN FALSE
    ELSE ~Truthy(passcode) \/ generate_totp_passcode(secret, t) = PyStr(passcode)

\* Faulty variant: the passcodes are compared as numbers
validate_passcode_numeric(secret, passcode, t) ==
    IF ~Truthy(passcode) \/ secret = NoSecret
    THEN FALSE
    ELSE DigitsValue(generate_totp_passcode(secret, t)) = DigitsValue(PyStr(passcode))

validate_passcode(secret, passcode, t) ==
    IF ~Truthy(passcode) \/ secret = NoSecret
    THEN FALSE
    ELSE generate_totp_passcode(secret, t) = PyStr(passcode)

\* validate_passcode raises: generate_totp_passcode is reached and raises
validate_passcode_raises(secret, passcode) ==
    Truthy(passcode) /\ secret # NoSecret /\ generate_raises(secret)

Out(a, st) == [a |-> a, store |-> st]

\* Faulty variant: the drafts are gone through for a removal request as well
pre_validate_any(a, st) ==
    IF validate(a, st)
    THEN Out([a EXCEPT !.valid = TRUE, !.pc = "pre_list"], st)
    ELSE Out([a EXCEPT !.valid = FALSE, !.pc = "post_validate"], st)

\* _pre_approve: _validate()
pre_validate(a, st) ==
    IF validate(a, st)
    THEN Out([a EXCEPT !.valid = TRUE,
                       !.pc = IF a.delete THEN "post_validate" ELSE "pre_list"], st)
    ELSE Out([a EXCEPT !.valid = FALSE, !.pc = "post_validate"], st)

\* `for cred in creds', up to its next store call: a first valid credential is
\* kept (valid_cred = True), and the loop is left when the list is exhausted
KeepFirstValid(a) ==
    IF /\ a.i <= Len(a.creds)
       /\ ~a.valid_cred
       /\ json_loads_ok(a.creds[a.i].blob)
       /\ NotExpired(a.creds[a.i], a.expiry_time)
    THEN [a EXCEPT !.valid_cred = TRUE, !.i = a.i + 1]
    ELSE a

LeaveLoop(a) ==
    IF a.i > Len(a.creds)
    THEN [a EXCEPT !.pc = IF a.valid_cred THEN "post_validate" ELSE "pre_add",
                   !.creds = <<>>, !.i = 1]
    ELSE a

\* the try block of the loop raises past `except (ValueError, KeyError)'
RaisesInLoop(a) ==
    /\ a.i <= Len(a.creds)
    /\ ~a.valid_cred
    /\ json_loads_uncaught(a.creds[a.i].blob)

NextStoreCall(a) ==
    IF RaisesInLoop(a)
    THEN Returned(a, "raised")
    ELSE LeaveLoop(KeepFirstValid(a))

\* _pre_approve: list the drafts, fix expiry_time, enter the loop
pre_list(a, st, t) ==
    Out(NextStoreCall([a EXCEPT !.creds = list_credentials(st, a.user, "totp-draft"),
                                !.expiry_time = ExpiryTime(t),
                                !.valid_cred = FALSE,
                                !.i = 1,
                                !.pc = "pre_loop"]),
        st)

\* Faulty variant: the credential at hand is passed over instead of deleted
pre_loop_no_delete(a, st) == Out(NextStoreCall([a EXCEPT !.i = a.i + 1]), st)

\* _pre_approve: id_manager.delete_credential(cred) for the credential at hand
\* (one after the valid one, an expired one or an unparseable one)
pre_loop(a, st) ==
    IF InStore(st, a.creds[a.i])
    THEN Out(NextStoreCall([a EXCEPT !.i = a.i + 1]),
             delete_credential(st, a.creds[a.i]))
    \* the credential is gone: the store call raises
    ELSE Out(Returned(a, "raised"), st)

\* _pre_approve: store a newly generated secret as a draft
pre_add(a, st, t, fresh) ==
    Out([a EXCEPT !.used = TRUE, !.pc = "post_validate"],
        add_credential(st, a.user, "totp-draft", DraftBlob(b32encode(fresh), t)))

\* _post_approve: _validate()
post_validate(a, st) ==
    Out(Returned([a EXCEPT !.valid = validate(a, st)], "done"), st)

----------------------------------------------------------------------------
(* EditMFAAction._submit *)

CredType(a) == IF a.delete THEN "totp" ELSE "totp-draft"

\* Faulty variant: an invalid action returns an error payload
submit_validate_reports(a, st) ==
    IF validate(a, st)
    THEN Out([a EXCEPT !.valid = TRUE, !.pc = "submit_get"], st)
    ELSE Out(Returned([a EXCEPT !.valid = FALSE, !.errors = "Invalid action"], "done"), st)

\* Faulty variant: an invalid action is carried on with
submit_validate_carries_on(a, st) ==
    Out([a EXCEPT !.valid = validate(a, st), !.pc = "submit_get"], st)

\* _submit: _validate(); an invalid action returns at once
submit_validate(a, st) ==
    IF validate(a, st)
    THEN Out([a EXCEPT !.valid = TRUE, !.pc = "submit_get"], st)
    ELSE Out(Returned([a EXCEPT !.valid = FALSE], "done"), st)

\* Faulty variant: a missing draft is taken like a missing 'totp' credential
NoSecretFound_plain(a) == Returned(a, "done")

\* _submit after get_credential_secret found no usable secret
NoSecretFound(a) ==
    IF a.delete
    THEN \* "TOTP already removed": plain return
         Returned(a, "done")
    ELSE Returned([a EXCEPT !.valid = FALSE, !.errors = "TOTP Secret Removed"], "done")

\* Faulty variant: the result of validate_passcode is not looked at
submit_check_unchecked(a, t) ==
    [a EXCEPT !.pc = IF a.delete THEN "submit_clear_totp" ELSE "submit_clear_draft"]

\* Faulty variant: a mismatch is not reported: no error, the action stays valid
submit_check_silent(a, t) ==
    IF validate_passcode(a.secret, a.passcode, t)
    THEN [a EXCEPT !.pc = IF a.delete THEN "submit_clear_totp" ELSE "submit_clear_draft"]
    ELSE Returned(a, "done")

\* _submit: validate_passcode(secret, token_data.get('passcode'))
submit_check(a, t) ==
    IF validate_passcode_raises(a.secret, a.passcode)
    THEN Returned(a, "raised")
    ELSE IF validate_passcode(a.secret, a.passcode, t)
    THEN [a EXCEPT !.pc = IF a.delete THEN "submit_clear_totp" ELSE "submit_clear_draft"]
    ELSE Returned([a EXCEPT !.valid = FALSE, !.errors = "Invalid TOTP passcode"], "done")

\* Faulty variant: with several credentials the first one is used
get_credential_secret_first(a, st, t) ==
    LET credentials == list_credentials(st, a.user, CredType(a))
    IN  IF Len(credentials) < 1
        THEN Out(NoSecretFound(a), st)
        ELSE IF CredType(a) = "totp" \/ json_loads_ok(credentials[1].blob)
        THEN Out(submit_check([a EXCEPT !.secret = credentials[1].blob.secret], t), st)
        ELSE Out(NoSecretFound(a), st)

\* get_credential_secret: list the credentials and pick the secret; with a
\* secret, _submit goes on to check the passcode
get_credential_secret(a, st, t) ==
    LET credentials == list_credentials(st, a.user, CredType(a))
    IN  IF Len(credentials) < 1
        THEN Out(NoSecretFound(a), st)
        ELSE IF Len(credentials) > 1
        THEN IF CredType(a) = "totp-draft"
             THEN Out([a EXCEPT !.pc = "submit_purge"], st)
             ELSE Out(NoSecretFound(a), st)
        ELSE IF CredType(a) = "totp" \/ json_loads_ok(credentials[1].blob)
        THEN Out(submit_check([a EXCEPT !.secret = credentials[1].blob.secret], t), st)
        ELSE Out(NoSecretFound(a), st)

\* get_credential_secret: more than one draft, clear them all
submit_purge(a, st) ==
    Out(NoSecretFound(a), clear_credential_type(st, a.user, "totp-draft"))

\* _submit, delete: clear_credential_type(user_id, 'totp')
submit_clear_totp(a, st) ==
    Out(Returned([a EXCEPT !.valid = TRUE], "done"),
        clear_credential_type(st, a.user, "totp"))

\* Faulty variant: the drafts are not cleared before the promotion
submit_clear_draft_skipped(a, st) == Out([a EXCEPT !.pc = "submit_add_totp"], st)

\* _submit, add: clear_credential_type(user_id, 'totp-draft')
submit_clear_draft(a, st) ==
    Out([a EXCEPT !.pc = "submit_add_totp"],
        clear_credential_type(st, a.user, "totp-draft"))

\* _submit, add: add_credential(user_id, 'totp', secret)
submit_add_totp(a, st) ==
    Out(Returned([a EXCEPT !.valid = TRUE], "done"),
        add_credential(st, a.user, "totp", TotpBlob(a.secret)))

----------------------------------------------------------------------------
(* PasswordTOTP, the password auth method of the identity service
   (keystone-plugin/keystone_mfa/mitaka/password_totp.py).  A password is a
   sequence of characters: 0..9 are the digits, larger numbers stand for
   other characters. *)

\* the password the identity backend holds for each user
UserPassword(user) == IF user = "u1" THEN <<10, 11>> ELSE <<11, 1>>

\* identity_api.authenticate does not raise AssertionError
identity_authenticate(user, password) ==
    user \in Users /\ password = UserPassword(user)

\* Python slices s[:-n] and s[-n:]
SliceButLast(s, n) == IF Len(s) <= n THEN <<>> ELSE SubSeq(s, 1, Len(s) - n)
SliceLast(s, n) == IF Len(s) <= n THEN s ELSE SubSeq(s, Len(s) - n + 1, Len(s))

\* the passcode of the blob is generated (a corrupt blob such as '0' raises)
b32decode_ok(blob) == ~generate_raises(blob.secret)

\* totp._generate_totp_passcode(credential['blob']) at clock time t: the
\* one passcode of the current period, compared as a string by the caller
totp_generate_totp_passcode(blob, t) ==
    ZeroPadded(Hotp(PadToEight(blob.secret).key, t \div PASSCODE_TIME_PERIOD))

\* Faulty variant: only the first credential is tried
passcode_matches_first(credentials, auth_passcode, t) ==
    /\ credentials # <<>>
    /\ b32decode_ok(credentials[1].blob)
    /\ auth_passcode = totp_generate_totp_passcode(credentials[1].blob, t)

\* Faulty variant: a credential whose blob does not decode ends the loop
passcode_matches_until_corrupt(credentials, auth_passcode, t) ==
    \E i \in 1..Len(credentials) :
        /\ \A j \in 1..i : b32decode_ok(credentials[j].blob)
        /\ auth_passcode = totp_generate_totp_passcode(credentials[i].blob, t)

\* `for credential in credentials': some credential's passcode equals
\* auth_passcode; a credential whose blob does not decode is passed over
passcode_matches(credentials, auth_passcode, t) ==
    \E i \in 1..Len(credentials) :
        /\ b32decode_ok(credentials[i].blob)
        /\ auth_passcode = totp_generate_totp_passcode(credentials[i].blob, t)

\* Faulty variant: the 'totp' credentials of every user are listed
list_credentials_for_user_everyone(st, user) ==
    list_credentials(st, "u1", "totp") \o list_credentials(st, "u2", "totp")

\* Faulty variant: the user's credentials of every type are listed
list_credentials_for_user_any(st, user) ==
    list_credentials(st, user, "totp") \o list_credentials(st, user, "totp-draft")
        \o list_credentials(st, user, "cert")

\* credential_api.list_credentials_for_user(user_info.user_id, type='totp')
list_credentials_for_user(st, user) == list_credentials(st, user, "totp")

\* Faulty variant: the passcode is checked before the password
authenticate_passcode_first(st, user, password, t) ==
    LET credentials == list_credentials_for_user(st, user)
        user_password == IF credentials # <<>>
                         THEN SliceButLast(password, PASSCODE_LENGTH)
                         ELSE password
        auth_passcode == SliceLast(password, PASSCODE_LENGTH)
        valid_passcode == IF credentials # <<>>
                          THEN passcode_matches(credentials, auth_passcode, t)
                          ELSE TRUE
    IN  IF ~valid_passcode
        THEN "Invalid TOTP passcode"
        ELSE IF ~identity_authenticate(user, user_password)
        THEN "Invalid username or password"
        ELSE "ok"

\* PasswordTOTP.authenticate: "ok", or the message of the Unauthorized raised
authenticate(st, user, password, t) ==
    LET credentials == list_credentials_for_user(st, user)
        user_password == IF credentials # <<>>
                         THEN SliceButLast(password, PASSCODE_LENGTH)
                         ELSE password
        auth_passcode == SliceLast(password, PASSCODE_LENGTH)
        valid_passcode == IF credentials # <<>>
                          THEN passcode_matches(credentials, auth_passcode, t)
                          ELSE TRUE
    IN  IF ~identity_authenticate(user, user_password)
        THEN "Invalid username or password"
        ELSE IF ~valid_passcode
        THEN "Invalid TOTP passcode"
        ELSE "ok"

\* the number of credentials `for credential in credentials' gets to before
\* authenticate returns or raises: none when the password is turned down,
\* otherwise those up to the first match
credentials_evaluated(st, user, password, t) ==
    LET credentials == list_credentials_for_user(st, user)
        user_password == IF credentials # <<>>
                         THEN SliceButLast(password, PASSCODE_LENGTH)
                         ELSE password
        auth_passcode == SliceLast(password, PASSCODE_LENGTH)
        hits == {i \in 1..Len(credentials) :
                    /\ b32decode_ok(credentials[i].blob)
                    /\ auth_passcode = totp_generate_totp_passcode(credentials[i].blob, t)}
    IN  IF ~identity_authenticate(user, user_password)
        THEN 0
        ELSE IF hits = {}
        THEN Len(credentials)
        ELSE CHOOSE i \in hits : \A j \in hits : i <= j

----------------------------------------------------------------------------
(* The passcode generators: generate_totp_passcode of the adjutant plugin
   (mfa_actions/utils.py) and _generate_totp_passcodes of the keystone
   plugin (keystone_mfa/utils.py) *)

\* int(time / time_step): the quotient, rounded towards zero
IntDiv(a, b) == IF a >= 0 THEN a \div b ELSE -((-a) \div b)

\* totp.generate(passcode_ts).decode('utf-8') for the key of secret
totp_generate(secret, ts) ==
    ZeroPadded(Hotp(PadToEight(secret).key, IntDiv(ts, PASSCODE_TIME_PERIOD)))

\* Faulty variant: the loop steps forward in time instead of back
generate_totp_passcodes_forward(secret, included_previous_windows, t) ==
    [i \in 1..(included_previous_windows + 1) |->
        totp_generate(secret, t + (i - 1) * PASSCODE_TIME_PERIOD)]

\* Faulty variant: the timestamp is not moved between the passcodes
generate_totp_passcodes_stuck(secret, included_previous_windows, t) ==
    [i \in 1..(included_previous_windows + 1) |-> totp_generate(secret, t)]

\* _generate_totp_passcodes(secret, included_previous_windows) at clock time
\* t, for a secret it does not raise on: the passcode of t and those of the
\* timestamps one, two, ... periods before t
generate_totp_passcodes(secret, included_previous_windows, t) ==
    [i \in 1..(included_previous_windows + 1) |->
        totp_generate(secret, t - (i - 1) * PASSCODE_TIME_PERIOD)]

\* no generator has been called yet
NoCall ==
    [fn |-> "none", secret |-> NoSecret, n |-> 0, t |-> 0,
     raised |-> FALSE, passcodes |-> <<>>]

\* a call of the adjutant plugin's generate_totp_passcode(secret)
CallGenerateTotpPasscode(secret) ==
    /\ codec' = [fn |-> "generate_totp_passcode", secret |-> secret, n |-> 0, t |-> now,
                 raised |-> generate_raises(secret),
                 passcodes |-> IF generate_raises(secret) THEN <<>>
                               ELSE <<generate_totp_passcode(secret, now)>>]
    /\ UNCHANGED <<store, now, ticks, nextSecret, procs, tasks, posts>>

\* a call of the keystone plugin's _generate_totp_passcodes(secret, n)
CallGenerateTotpPasscodes(secret, n) ==
    /\ codec' = [fn |-> "_generate_totp_passcodes", secret |-> secret, n |-> n, t |-> now,
                 raised |-> generate_raises(secret),
                 passcodes |-> IF generate_raises(secret) THEN <<>>
                               ELSE generate_totp_passcodes(secret, n, now)]
    /\ UNCHANGED <<store, now, ticks, nextSecret, procs, tasks, posts>>

\* the clock of the generators, second by second.  It starts well after the
\* epoch, so that the timestamps of the preceding periods are positive.
ClockBase == (MaxWindows + 2) * PASSCODE_TIME_PERIOD

Second ==
    /\ now < ClockBase + MaxClock
    /\ now' = now + 1
    /\ UNCHANGED <<store, ticks, nextSecret, procs, codec, tasks, posts>>

\* the secrets the generators are called on: as b32encode makes them (32
\* characters), 16 bytes spelt with and without the '=' signs, the 16
\* characters of a 10-byte key, the empty text, a text whose length no
\* padding repairs, and the corrupt '0'
CodecSecrets ==
    {b32encode(1), b32encode(2),
     B32Text(5, 26, 6, TRUE), B32Text(5, 26, 0, TRUE),
     B32Text(6, 16, 0, TRUE),
     NoSecret,
     B32Text(7, 27, 0, TRUE),
     CorruptText}

----------------------------------------------------------------------------
(* One step of a request, and a request run without interruption *)

Running(a) == a.pc \notin {"idle", "done", "raised"}

\* the user whose requests race
RacingUser == "u1"


step(a, st, t, fresh) ==
    CASE a.pc = "pre_validate"       -> pre_validate(a, st)
      [] a.pc = "pre_list"           -> pre_list(a, st, t)
      [] a.pc = "pre_loop"           -> pre_loop(a, st)
      [] a.pc = "pre_add"            -> pre_add(a, st, t, fresh)
      [] a.pc = "post_validate"      -> post_validate(a, st)
      [] a.pc = "submit_validate"    -> submit_validate(a, st)
      [] a.pc = "submit_get"         -> get_credential_secret(a, st, t)
      [] a.pc = "submit_purge"       -> submit_purge(a, st)
      [] a.pc = "submit_clear_totp"  -> submit_clear_totp(a, st)
      [] a.pc = "submit_clear_draft" -> submit_clear_draft(a, st)
      [] a.pc = "submit_add_totp"    -> submit_add_totp(a, st)
      [] OTHER                       -> Out(a, st)

RECURSIVE run(_, _, _, _)
run(a, st, t, fresh) ==
    IF Running(a)
    THEN LET r == step(a, st, t, fresh) IN run(r.a, r.store, t, fresh)
    ELSE Out(a, st)

----------------------------------------------------------------------------
(* Requests *)

Targets == Users \cup {GhostUser}

\* the code an authenticator application shows for key at time t
AuthenticatorCode(secret, t) == ZeroPadded(Hotp(secret.key, t \div PASSCODE_TIME_PERIOD))

\* the secrets issued so far
Issued == {b32encode(k) : k \in 1..(nextSecret - 1)}

\* passcodes a client may submit at time t: none, the empty string, and the
\* codes of every issued key for the current and (when there is one) the
\* previous period
PasscodeInputs(t) ==
    {NoPasscode, StrPasscode(<<>>)}
    \cup {StrPasscode(AuthenticatorCode(k, t)) : k \in Issued}
    \cup {IntPasscode(DigitsValue(AuthenticatorCode(k, t))) : k \in Issued}
    \cup {StrPasscode(AuthenticatorCode(k, t - PASSCODE_TIME_PERIOD)) :
            k \in {x \in Issued : t >= PASSCODE_TIME_PERIOD}}

\* a request served from start to end with no other request in between
Atomic(op, user, passcode) ==
    \E r \in {run(NewAction(op, user, passcode), store, now, nextSecret)} :
        /\ r.a.used => nextSecret <= MaxSecrets
        /\ store' = r.store
        /\ nextSecret' = IF r.a.used THEN nextSecret + 1 ELSE nextSecret
        /\ UNCHANGED <<now, ticks, procs, codec, tasks, posts>>

RequestEnable(user) == Atomic("RequestEnable", user, NoPasscode)

RequestDisable(user) == Atomic("RequestDisable", user, NoPasscode)

ConfirmEnable(user, passcode) == Atomic("ConfirmEnable", user, passcode)

ConfirmDisable(user, passcode) == Atomic("ConfirmDisable", user, passcode)

\* the clock advances
ClockSteps == {1, PASSCODE_TIME_PERIOD, cred_expiry * 60}

\* (a request in flight ends within the clock's resolution)
Tick ==
    /\ ticks < MaxTicks
    /\ \A w \in Workers : ~Running(procs[w])
    /\ \E d \in ClockSteps : now' = now + d
    /\ ticks' = ticks + 1
    /\ UNCHANGED <<store, nextSecret, procs, codec, tasks, posts>>

(* Requests served concurrently by the workers, one store call at a time *)

\* (the workers are interchangeable: w2 takes a request only while w1 is busy)
Begin(w, op, user, passcode) ==
    /\ procs[w].pc = "idle"
    /\ w = "w2" => procs["w1"].pc # "idle"
    /\ procs' = [procs EXCEPT ![w] = NewAction(op, user, passcode)]
    /\ UNCHANGED <<store, now, ticks, nextSecret, codec, tasks, posts>>

WorkerStep(w) ==
    /\ Running(procs[w])
    /\ procs[w].pc = "pre_add" => nextSecret <= MaxSecrets
    /\ \E r \in {step(procs[w], store, now, nextSecret)} :
           /\ store' = r.store
           /\ nextSecret' = IF procs[w].pc = "pre_add" THEN nextSecret + 1 ELSE nextSecret
           \* once the handler has returned the worker is free again
           /\ procs' = [procs EXCEPT ![w] = IF Running(r.a) THEN r.a ELSE IdleAction]
    /\ UNCHANGED <<now, ticks, codec, tasks, posts>>

(* Other clients of the identity service: the credential store is not the
   action's own, and a 'totp-draft' credential may be written or removed
   there by someone else *)

\* the blobs another client may store at time t.  As a draft: a well-formed
\* one, one whose secret is corrupt (and whose 'created' is the epoch), or a
\* blob of one of the malformed kinds.
\* As a 'totp' credential: a base32 secret, or a corrupt blob such as '0'
ForeignBlobs(type, t, fresh) ==
    IF type = "totp-draft"
    THEN {DraftBlob(b32encode(fresh), t), DraftBlob(CorruptText, 0)}
         \cup {[secret |-> NoSecret, created |-> 0, form |-> f] :
                 f \in BlobForms \ {"object"}}
    ELSE IF type = "totp"
    THEN {TotpBlob(b32encode(fresh)), TotpBlob(CorruptText)}
    ELSE {TotpBlob(CorruptText)}

\* the blob carries a newly made secret
HoldsSecret(blob) == blob.secret.clean /\ blob.secret # NoSecret

ForeignAdd(user, type, blob) ==
    /\ Len(list_credentials(store, user, "totp"))
         + Len(list_credentials(store, user, "totp-draft"))
         + Len(list_credentials(store, user, "cert")) < MaxCreds
    /\ HoldsSecret(blob) => nextSecret <= MaxSecrets
    /\ store' = add_credential(store, user, type, blob)
    /\ nextSecret' = IF HoldsSecret(blob) THEN nextSecret + 1 ELSE nextSecret
    /\ UNCHANGED <<now, ticks, procs, codec, tasks, posts>>

ForeignClear(user) ==
    /\ list_credentials(store, user, "totp-draft") # <<>>
    /\ store' = clear_credential_type(store, user, "totp-draft")
    /\ UNCHANGED <<now, ticks, nextSecret, procs, codec, tasks, posts>>

----------------------------------------------------------------------------
(* The task layer: EditMFA.post and EditMFA.delete (mfa_views/views.py), which
   reuse a pending task or have a new one processed, and the submission of a
   task's token, which runs the action's _submit.  The token of the i-th task
   has the id i. *)

\* a task as process_actions creates it, with the tokens issued for it
Task(user, delete, created_on, tokens) ==
    [user |-> user, delete |-> delete, created_on |-> created_on,
     completed |-> FALSE, cancelled |-> FALSE, tokens |-> tokens]

\* no request in flight and no response yet
NoPost ==
    [pc |-> "idle", user |-> GhostUser, delete |-> FALSE, task |-> 0,
     reused |-> FALSE, creds |-> <<>>, status |-> "none", otpauth |-> NoSecret]

\* Task.objects.filter(project_id, keystone_user, task_type,
\*                     created_on__gt=expiry_time, completed=0, cancelled=0)
project_mfa_tasks(tk, user, t) ==
    {i \in 1..Len(tk) :
        /\ tk[i].user = user
        /\ tk[i].created_on > t - cred_expiry * 60
        /\ ~tk[i].completed
        /\ ~tk[i].cancelled}

\* Faulty variant: the first pending task is reused whatever it is for
reuse_existing_task_any(tk, user, delete, t) ==
    LET found == project_mfa_tasks(tk, user, t)
    IN  IF found # {} THEN CHOOSE i \in found : \A j \in found : i <= j ELSE 0

\* _reuse_existing_task: the task whose token is returned, 0 for None
reuse_existing_task(tk, user, delete, t) ==
    LET found == project_mfa_tasks(tk, user, t)
    IN  IF Cardinality(found) = 1
        THEN LET task == CHOOSE i \in found : TRUE
             IN  IF tk[task].delete = delete /\ tk[task].tokens = 1
                 THEN task
                 ELSE 0
        ELSE 0

\* the duplicate_policy of the task settings: pending tasks with the same
\* data are cancelled, or the new request is refused
DuplicatePolicies == {"cancel", "refuse"}

\* the pending tasks with the same task type and action data
duplicate_tasks(tk, user, delete) ==
    {i \in 1..Len(tk) :
        /\ tk[i].user = user
        /\ tk[i].delete = delete
        /\ ~tk[i].completed
        /\ ~tk[i].cancelled}

\* process_actions: duplicates are dealt with, a task is created, the action
\* is pre-approved and, being auto-approved, post-approved; a token is issued
\* when the action is valid
process_actions(tk, st, user, delete, t, fresh, policy) ==
    LET dups == duplicate_tasks(tk, user, delete)
        kept == [i \in 1..Len(tk) |->
                    IF i \in dups THEN [tk[i] EXCEPT !.cancelled = TRUE] ELSE tk[i]]
        r    == run(NewAction(IF delete THEN "RequestDisable" ELSE "RequestEnable",
                              user, NoPasscode), st, t, fresh)
        ok   == r.a.pc = "done" /\ r.a.valid
    IN  IF dups # {} /\ policy = "refuse"
        THEN [tasks |-> tk, store |-> st, used |-> FALSE, errors |-> TRUE]
        ELSE [tasks  |-> Append(kept, Task(user, delete, t, IF ok THEN 1 ELSE 0)),
              store  |-> r.store,
              used   |-> r.a.used,
              errors |-> ~ok]

\* get_provisioning_uri: creds[0] raises IndexError on an empty list,
\* json.loads(...)['secret'] and the decoding raise on a bad blob
get_provisioning_uri(st, user) ==
    LET creds == list_credentials(st, user, "totp-draft")
    IN  IF creds = <<>>
        THEN [raised |-> TRUE, creds |-> creds, secret |-> NoSecret]
        ELSE IF ~json_loads_ok(creds[1].blob) \/ generate_raises(creds[1].blob.secret)
        THEN [raised |-> TRUE, creds |-> creds, secret |-> NoSecret]
        ELSE [raised |-> FALSE, creds |-> creds, secret |-> creds[1].blob.secret]

\* EditMFA.post (delete = False) and EditMFA.delete (delete = True) up to the
\* response, or for post up to the call of get_provisioning_uri
edit_mfa(tk, st, user, delete, t, fresh, policy) ==
    LET task == reuse_existing_task(tk, user, delete, t)
        pr   == process_actions(tk, st, user, delete, t, fresh, policy)
    IN  IF task # 0
        THEN [tasks |-> tk, store |-> st, used |-> FALSE,
              post  |-> [pc |-> IF delete THEN "idle" ELSE "uri",
                         user |-> user, delete |-> delete, task |-> task,
                         reused |-> TRUE, creds |-> <<>>,
                         status |-> IF delete THEN "ok" ELSE "none",
                         otpauth |-> NoSecret]]
        ELSE [tasks |-> pr.tasks, store |-> pr.store, used |-> pr.used,
              post  |-> [pc |-> IF pr.errors \/ delete THEN "idle" ELSE "uri",
                         user |-> user, delete |-> delete,
                         task |-> IF pr.errors THEN 0 ELSE Len(pr.tasks),
                         reused |-> FALSE, creds |-> <<>>,
                         status |-> IF pr.errors THEN "errors"
                                    ELSE IF delete THEN "ok" ELSE "none",
                         otpauth |-> NoSecret]]

\* EditMFA.post from the call of get_provisioning_uri to the response
post_otpauth(post, st) ==
    LET g == get_provisioning_uri(st, post.user)
    IN  [post EXCEPT !.pc = "idle",
                     !.creds = g.creds,
                     !.status = IF g.raised THEN "raised" ELSE "ok",
                     !.otpauth = g.secret]

\* the request is received and served up to its response or, for a POST that
\* is to answer with a token, up to get_provisioning_uri
EditMFARequest(user, delete) ==
    /\ posts.pc = "idle"
    /\ \E policy \in DuplicatePolicies :
       \E r \in {edit_mfa(tasks, store, user, delete, now, nextSecret, policy)} :
        /\ Len(r.tasks) <= MaxTasks
        /\ r.used => nextSecret <= MaxSecrets
        /\ tasks' = r.tasks
        /\ store' = r.store
        /\ nextSecret' = IF r.used THEN nextSecret + 1 ELSE nextSecret
        /\ posts' = r.post
    /\ UNCHANGED <<now, ticks, procs, codec>>

\* the POST in flight calls get_provisioning_uri and answers
PostProvisioningUri ==
    /\ posts.pc = "uri"
    /\ posts' = post_otpauth(posts, store)
    /\ UNCHANGED <<store, now, ticks, nextSecret, procs, codec, tasks>>

\* the token of a pending task is submitted with a passcode: the action's
\* _submit runs; the task is completed and its token deleted unless _submit
\* raises or returns errors
SubmitToken(task, passcode) ==
    /\ task \in 1..Len(tasks)
    /\ ~tasks[task].completed /\ ~tasks[task].cancelled
    /\ tasks[task].tokens >= 1
    \* the token id is known from a response only
    /\ ~(posts.pc = "uri" /\ ~posts.reused /\ posts.task = task)
    /\ \E r \in {run(NewAction(IF tasks[task].delete THEN "ConfirmDisable"
                                                    ELSE "ConfirmEnable",
                               tasks[task].user, passcode),
                     store, now, nextSecret)} :
        /\ store' = r.store
        /\ tasks' = IF r.a.pc = "done" /\ r.a.errors = ""
                    THEN [tasks EXCEPT ![task].completed = TRUE, ![task].tokens = 0]
                    ELSE tasks
    /\ UNCHANGED <<now, ticks, nextSecret, procs, codec, posts>>

\* a pending task is cancelled
CancelTask(task) ==
    /\ task \in 1..Len(tasks)
    /\ ~tasks[task].completed /\ ~tasks[task].cancelled
    /\ tasks' = [tasks EXCEPT ![task].cancelled = TRUE]
    /\ UNCHANGED <<store, now, ticks, nextSecret, procs, codec, posts>>

\* the clock reaches the next expiry time
Expiry ==
    /\ ticks < MaxTicks
    /\ now' = now + cred_expiry * 60
    /\ ticks' = ticks + 1
    /\ UNCHANGED <<store, nextSecret, procs, codec, tasks, posts>>



----------------------------------------------------------------------------
(* Specifications *)

Init ==
    /\ store = EmptyStore
    /\ now = 0
    /\ ticks = 0
    /\ nextSecret = 1
    /\ procs = [w \in Workers |-> IdleAction]
    /\ codec = NoCall
    /\ tasks = <<>>
    /\ posts = NoPost

\* requests served one after another
Next ==
    \/ \E u \in Targets : RequestEnable(u)
    \/ \E u \in Targets : RequestDisable(u)
    \/ \E u \in Targets, p \in PasscodeInputs(now) : ConfirmEnable(u, p)
    \/ \E u \in Targets, p \in PasscodeInputs(now) : ConfirmDisable(u, p)
    \/ Tick

Spec == Init /\ [][Next]_vars

\* one user's requests, served one after another or concurrently
NextConc ==
    \/ RequestEnable(RacingUser)
    \/ RequestDisable(RacingUser)
    \/ \E p \in PasscodeInputs(now) : ConfirmEnable(RacingUser, p)
    \/ \E p \in PasscodeInputs(now) : ConfirmDisable(RacingUser, p)
    \/ Tick
    \/ \E w \in Workers : Begin(w, "RequestEnable", RacingUser, NoPasscode)
    \/ \E w \in Workers : WorkerStep(w)

SpecConc == Init /\ [][NextConc]_vars

\* one user's ConfirmEnable requests (say from two tokens issued against the
\* same draft) served concurrently, one store call at a time
NextRace ==
    \/ RequestEnable(RacingUser)
    \/ \E p \in PasscodeInputs(now) : ConfirmDisable(RacingUser, p)
    \/ Tick
    \/ \E w \in Workers : \E p \in PasscodeInputs(now) :
           Begin(w, "ConfirmEnable", RacingUser, p)
    \/ \E w \in Workers : WorkerStep(w)

SpecRace == Init /\ [][NextRace]_vars

\* the passcode generators called at any second, on any secret
InitCodec ==
    /\ store = EmptyStore
    /\ now = ClockBase
    /\ ticks = 0
    /\ nextSecret = 1
    /\ procs = [w \in Workers |-> IdleAction]
    /\ codec = NoCall
    /\ tasks = <<>>
    /\ posts = NoPost

NextCodec ==
    \/ Second
    \/ \E s \in CodecSecrets : CallGenerateTotpPasscode(s)
    \/ \E s \in CodecSecrets : \E n \in 0..MaxWindows : CallGenerateTotpPasscodes(s, n)

SpecCodec == InitCodec /\ [][NextCodec]_vars

\* EditMFA requests and token submissions; a POST may be overtaken by a
\* token submission between its two parts
NextView ==
    \/ \E u \in Users : EditMFARequest(u, FALSE)
    \/ EditMFARequest(RacingUser, TRUE)
    \/ PostProvisioningUri
    \/ \E i \in 1..MaxTasks : \E p \in PasscodeInputs(now) : SubmitToken(i, p)
    \/ \E i \in 1..MaxTasks : CancelTask(i)
    \/ Expiry

SpecView == Init /\ [][NextView]_vars

\* one user's requests served one after another, over a store other clients
\* write to as well
NextForeign ==
    \/ RequestEnable(RacingUser)
    \/ RequestDisable(RacingUser)
    \/ \E p \in PasscodeInputs(now) : ConfirmEnable(RacingUser, p)
    \/ \E p \in PasscodeInputs(now) : ConfirmDisable(RacingUser, p)
    \/ Tick
    \/ \E ty \in CredTypes : \E b \in ForeignBlobs(ty, now, nextSecret) :
           ForeignAdd(RacingUser, ty, b)
    \/ ForeignClear(RacingUser)

SpecForeign == Init /\ [][NextForeign]_vars

----------------------------------------------------------------------------
(* Vocabulary of the properties *)

Active(st, u) == list_credentials(st, u, "totp")
Drafts(st, u) == list_credentials(st, u, "totp-draft")

\* what serving the request op(u, p) without interruption does in the current state
Outcome(op, u, p) == run(NewAction(op, u, p), store, now, nextSecret)

\* p is the passcode an authenticator holding secret shows right now
CurrentFor(p, secret) == p = StrPasscode(AuthenticatorCode(secret, now))

Expired(cred) == cred.blob.created < now - cred_expiry * 60

NonExpired(seq) == SelectSeq(seq, LAMBDA c : ~Expired(c))

SecretsOf(seq) == {seq[i].blob.secret : i \in 1..Len(seq)}

\* seq1 is an initial part of seq2
IsPrefix(seq1, seq2) ==
    Len(seq1) <= Len(seq2) /\ \A i \in 1..Len(seq1) : seq1[i] = seq2[i]

OneDraftNoActive(u) == Len(Drafts(store, u)) = 1 /\ Active(store, u) = <<>>

----------------------------------------------------------------------------
(* C1: whatever sequence of RequestEnable, ConfirmEnable, RequestDisable and
   ConfirmDisable requests is served one after another from the empty store,
   with any passcodes and clock advances, every user has at most one 'totp'
   credential. *)
C1_AtMostOneActive == \A u \in Users : Len(Active(store, u)) <= 1

C1_Witness == \E u \in Users : Len(Active(store, u)) = 1 /\ Drafts(store, u) = <<>>

(* C2: ConfirmEnable for a user with exactly one draft and no 'totp'
   credential, given the passcode currently valid for the draft's secret,
   leaves exactly one 'totp' credential holding the draft's secret and no
   draft, the action valid, and HasActiveMFA true. *)
C2_ConfirmEnablePromotes ==
    \A u \in Users : \A p \in PasscodeInputs(now) :
        (OneDraftNoActive(u) /\ CurrentFor(p, Drafts(store, u)[1].blob.secret)) =>
            LET r == Outcome("ConfirmEnable", u, p)
            IN  /\ Len(Active(r.store, u)) = 1
                /\ Active(r.store, u)[1].blob.secret = Drafts(store, u)[1].blob.secret
                /\ Drafts(r.store, u) = <<>>
                /\ r.a.valid
                /\ r.a.errors = ""
                /\ HasActiveMFA(r.store, u)

C2_Witness ==
    \E u \in Users : \E p \in PasscodeInputs(now) :
        /\ OneDraftNoActive(u)
        /\ CurrentFor(p, Drafts(store, u)[1].blob.secret)
        /\ ~HasActiveMFA(store, u)
        /\ HasActiveMFA(Outcome("ConfirmEnable", u, p).store, u)

(* C3: ConfirmEnable with a passcode that does not match the single draft's
   secret (a missing or empty passcode included) returns 'Invalid TOTP
   passcode', leaves the action invalid, creates no 'totp' credential and
   leaves the draft as it was; a ConfirmEnable with the correct passcode
   after it still succeeds. *)
C3_WrongPasscodeKeepsDraft ==
    \A u \in Users : \A p \in PasscodeInputs(now) :
        (OneDraftNoActive(u) /\ ~CurrentFor(p, Drafts(store, u)[1].blob.secret)) =>
            LET r == Outcome("ConfirmEnable", u, p)
                retry == run(NewAction("ConfirmEnable", u,
                                 StrPasscode(AuthenticatorCode(
                                     Drafts(store, u)[1].blob.secret, now))),
                             r.store, now, nextSecret)
            IN  /\ r.a.errors = "Invalid TOTP passcode"
                /\ ~r.a.valid
                /\ Active(r.store, u) = <<>>
                /\ r.store = store
                /\ retry.a.valid /\ HasActiveMFA(retry.store, u)

C3_Witness ==
    \E u \in Users : \E p \in PasscodeInputs(now) :
        /\ OneDraftNoActive(u)
        /\ p # NoPasscode /\ p # StrPasscode(<<>>)
        /\ ~CurrentFor(p, Drafts(store, u)[1].blob.secret)
        /\ Outcome("ConfirmEnable", u, p).a.errors = "Invalid TOTP passcode"

(* C4: a 'totp' credential is deleted by no request other than a
   ConfirmDisable whose passcode matches that credential's secret:
   RequestEnable, RequestDisable and a ConfirmDisable with a wrong, missing
   or empty passcode leave the user's 'totp' credentials as they were, and
   ConfirmEnable removes none of them. *)
Requests == {"RequestEnable", "RequestDisable", "ConfirmEnable", "ConfirmDisable"}

MatchesActive(p, u) ==
    \E i \in 1..Len(Active(store, u)) : CurrentFor(p, Active(store, u)[i].blob.secret)

C4_ActiveOnlyRemovedByConfirmedDisable ==
    \A u \in Users : \A v \in Targets : \A op \in Requests : \A p \in PasscodeInputs(now) :
        LET r == Outcome(op, v, p)
        IN  (op = "ConfirmDisable" /\ v = u /\ MatchesActive(p, u))
            \/ IF op = "ConfirmEnable"
               THEN IsPrefix(Active(store, u), Active(r.store, u))
               ELSE Active(r.store, u) = Active(store, u)

C4_Witness ==
    \E u \in Users : \E p \in PasscodeInputs(now) :
        /\ Len(Active(store, u)) = 1
        /\ Truthy(p) /\ ~MatchesActive(p, u)
        /\ Active(Outcome("ConfirmDisable", u, p).store, u) = Active(store, u)
        /\ \E q \in PasscodeInputs(now) :
              MatchesActive(q, u) /\ Active(Outcome("ConfirmDisable", u, q).store, u) = <<>>

(* C5: after a ConfirmDisable that succeeds (correct passcode against the
   user's 'totp' credential) the user has no 'totp' and no 'totp-draft'
   credential, in every state in which ConfirmDisable can be invoked. *)
C5_DisableLeavesNoCredential ==
    \A u \in Users : \A p \in PasscodeInputs(now) :
        (Len(Active(store, u)) = 1 /\ MatchesActive(p, u)) =>
            LET r == Outcome("ConfirmDisable", u, p)
            IN  r.a.valid /\ Active(r.store, u) = <<>> /\ Drafts(r.store, u) = <<>>

(* C6: ConfirmDisable with a passcode that does not match the secret of the
   user's 'totp' credential returns 'Invalid TOTP passcode', leaves the
   action invalid and leaves the 'totp' credential as it was. *)
C6_WrongPasscodeKeepsActive ==
    \A u \in Users : \A p \in PasscodeInputs(now) :
        (Len(Active(store, u)) = 1 /\ ~MatchesActive(p, u)) =>
            LET r == Outcome("ConfirmDisable", u, p)
            IN  /\ r.a.errors = "Invalid TOTP passcode"
                /\ ~r.a.valid
                /\ r.store = store

C6_Witness ==
    \E u \in Users : \E p \in PasscodeInputs(now) :
        /\ Len(Active(store, u)) = 1
        /\ ~MatchesActive(p, u)
        /\ Outcome("ConfirmDisable", u, p).a.errors = "Invalid TOTP passcode"
        /\ HasActiveMFA(Outcome("ConfirmDisable", u, p).store, u)

(* C7: RequestEnable for a user without a 'totp' credential who has two or
   more non-expired drafts. *)
TwoLiveDraftsNoActive(u) ==
    Active(store, u) = <<>> /\ Len(NonExpired(Drafts(store, u))) >= 2

(* C7, as claimed: every pre-existing draft is deleted and one freshly
   generated draft is stored, so that no pre-existing draft secret survives;
   the user has no 'totp' credential before or after. *)
C7_AllDraftsPurged ==
    \A u \in Users :
        TwoLiveDraftsNoActive(u) =>
            LET r == Outcome("RequestEnable", u, NoPasscode)
            IN  /\ Len(Drafts(r.store, u)) = 1
                /\ SecretsOf(Drafts(r.store, u)) \cap SecretsOf(Drafts(store, u)) = {}
                /\ Active(r.store, u) = <<>>

(* C7, amended: the first non-expired draft in listing order is kept as it
   is, every other draft (expired or not) is deleted and no new secret is
   generated; the user has no 'totp' credential before or after. *)
C7_FirstLiveDraftKept ==
    \A u \in Users :
        TwoLiveDraftsNoActive(u) =>
            LET r == Outcome("RequestEnable", u, NoPasscode)
            IN  /\ Drafts(r.store, u) = <<NonExpired(Drafts(store, u))[1]>>
                /\ ~r.a.used
                /\ r.a.valid
                /\ Active(r.store, u) = <<>>

C7_Witness ==
    \E u \in Users :
        /\ TwoLiveDraftsNoActive(u)
        /\ Len(Drafts(Outcome("RequestEnable", u, NoPasscode).store, u)) = 1

(* C8, as claimed: ConfirmEnable for a user who has two or more drafts fails
   whatever the passcode: it returns an error, leaves the action invalid,
   deletes all of the user's drafts and creates no 'totp' credential. *)
C8_DuplicateDraftsPurged ==
    \A u \in Users : \A p \in PasscodeInputs(now) :
        Len(Drafts(store, u)) >= 2 =>
            LET r == Outcome("ConfirmEnable", u, p)
            IN  /\ r.a.errors # ""
                /\ ~r.a.valid
                /\ Drafts(r.store, u) = <<>>
                /\ Active(r.store, u) = Active(store, u)

(* C8, amended: for a user who has two or more drafts ConfirmEnable fails
   whatever the passcode and creates no 'totp' credential; when the user has
   no 'totp' credential it returns the error 'TOTP Secret Removed', leaves
   the action invalid and deletes all of the user's drafts; when the user
   has one, the action is invalid, no error is returned and no credential
   changes. *)
C8_DuplicateDraftsFailClosed ==
    \A u \in Users : \A p \in PasscodeInputs(now) :
        Len(Drafts(store, u)) >= 2 =>
            LET r == Outcome("ConfirmEnable", u, p)
            IN  /\ ~r.a.valid
                /\ Active(r.store, u) = Active(store, u)
                /\ IF Active(store, u) = <<>>
                   THEN r.a.errors = "TOTP Secret Removed" /\ Drafts(r.store, u) = <<>>
                   ELSE r.a.errors = "" /\ r.store = store

C8_Witness ==
    \E u \in Users : \E p \in PasscodeInputs(now) :
        /\ Len(Drafts(store, u)) >= 2
        /\ Active(store, u) = <<>>
        /\ CurrentFor(p, Drafts(store, u)[1].blob.secret)
        /\ Outcome("ConfirmEnable", u, p).a.errors = "TOTP Secret Removed"

(* C9: ConfirmEnable never promotes an expired draft: when the user's only
   draft was created more than cred_expiry minutes before the call, the call
   fails and creates no 'totp' credential, even with the passcode valid for
   the draft's secret. *)
C9_ExpiredDraftNotPromoted ==
    \A u \in Users : \A p \in PasscodeInputs(now) :
        (OneDraftNoActive(u) /\ Expired(Drafts(store, u)[1])) =>
            LET r == Outcome("ConfirmEnable", u, p)
            IN  ~r.a.valid /\ Active(r.store, u) = <<>>

(* C10: RequestEnable is idempotent within the expiry window: for a user
   with no 'totp' credential whose one draft is not expired, a further
   RequestEnable adds no credential, deletes none and leaves the draft's
   secret and creation time as they were. *)
C10_RequestEnableIdempotent ==
    \A u \in Users :
        (OneDraftNoActive(u) /\ ~Expired(Drafts(store, u)[1])) =>
            LET r == Outcome("RequestEnable", u, NoPasscode)
            IN  r.store = store /\ ~r.a.used /\ r.a.valid

C10_Witness ==
    \E u \in Users :
        /\ OneDraftNoActive(u)
        /\ ~Expired(Drafts(store, u)[1])
        /\ Drafts(store, u)[1].blob.created < now
        /\ Outcome("RequestEnable", u, NoPasscode).store = store

(* C11: after a RequestEnable for a valid target user without a 'totp'
   credential, whatever mix of expired, non-expired and unparseable drafts
   the user had, the user has exactly one draft, that draft is well-formed
   and not expired at the time of the call, and no expired or unparseable
   draft remains. *)
C11_OneLiveDraftAfterRequestEnable ==
    \A u \in Users :
        Active(store, u) = <<>> =>
            LET r == Outcome("RequestEnable", u, NoPasscode)
            IN  /\ Len(Drafts(r.store, u)) = 1
                /\ json_loads_ok(Drafts(r.store, u)[1].blob)
                /\ ~Expired(Drafts(r.store, u)[1])

(* C12: for a user who has at least one 'totp' credential, authenticate
   succeeds exactly when the submitted password is the user's password
   followed by the 6-digit passcode currently valid for one of the user's
   'totp' credentials; a wrong passcode and the bare password are rejected
   as Unauthorized, and a match on any one of several credentials is
   enough. *)
SubmittedCodes ==
    {<<>>, <<0, 0, 0, 0, 0, 0>>}
    \cup {AuthenticatorCode(k, now) : k \in Issued}
    \cup {AuthenticatorCode(k, now - PASSCODE_TIME_PERIOD) :
            k \in {x \in Issued : now >= PASSCODE_TIME_PERIOD}}
    \cup {SubSeq(AuthenticatorCode(k, now), 2, PASSCODE_LENGTH) : k \in Issued}

SubmittedPasswords(u) ==
    {base \o code : base \in {UserPassword(u), <<>>, <<12>>, <<1>>},
                    code \in SubmittedCodes}

CurrentCodes(u) ==
    {AuthenticatorCode(Active(store, u)[i].blob.secret, now) :
        i \in {j \in 1..Len(Active(store, u)) :
                  ~generate_raises(Active(store, u)[j].blob.secret)}}

C12_LoginNeedsPasswordAndPasscode ==
    \A u \in Users : \A pw \in SubmittedPasswords(u) :
        Active(store, u) # <<>> =>
            /\ authenticate(store, u, pw, now) = "ok"
                  <=> \E c \in CurrentCodes(u) : pw = UserPassword(u) \o c
            /\ pw = UserPassword(u) => authenticate(store, u, pw, now) # "ok"

C12_Witness ==
    \E u \in Users : \E pw, bad \in SubmittedPasswords(u) :
        /\ Len(Active(store, u)) >= 2
        /\ pw = UserPassword(u) \o AuthenticatorCode(Active(store, u)[2].blob.secret, now)
        /\ Active(store, u)[1].blob.secret # Active(store, u)[2].blob.secret
        /\ authenticate(store, u, pw, now) = "ok"
        /\ bad = UserPassword(u) \o <<0, 0, 0, 0, 0, 0>>
        /\ authenticate(store, u, bad, now) = "Invalid TOTP passcode"
        /\ authenticate(store, u, UserPassword(u), now) = "Invalid username or password"

(* C13: ConfirmEnable and ConfirmDisable accept the passcode of the period
   just before the current one exactly as they accept the current one: with
   the previous period's passcode of the draft's secret ConfirmEnable
   promotes the draft, and with the previous period's passcode of the 'totp'
   credential's secret ConfirmDisable removes it. *)
PreviousFor(p, secret) ==
    /\ now >= PASSCODE_TIME_PERIOD
    /\ p = StrPasscode(AuthenticatorCode(secret, now - PASSCODE_TIME_PERIOD))

C13_PreviousPeriodAccepted ==
    \A u \in Users : \A p \in PasscodeInputs(now) :
        /\ (OneDraftNoActive(u) /\ ~Expired(Drafts(store, u)[1])
               /\ PreviousFor(p, Drafts(store, u)[1].blob.secret)) =>
              LET r == Outcome("ConfirmEnable", u, p)
              IN  r.a.valid /\ r.a.errors = "" /\ Len(Active(r.store, u)) = 1
        /\ (Len(Active(store, u)) = 1
               /\ PreviousFor(p, Active(store, u)[1].blob.secret)) =>
              LET r == Outcome("ConfirmDisable", u, p)
              IN  r.a.valid /\ r.a.errors = "" /\ Active(r.store, u) = <<>>

(* C14: for the user's one draft with secret s and the passcode C generated
   from s at time T, ConfirmEnable with C at T succeeds, and ConfirmEnable
   with C at T+60, two periods later, returns 'Invalid TOTP passcode' and
   leaves the draft in place.  (Here the clock reads T+60 for the stale C,
   and reads T for the fresh one.) *)
TwoPeriods == 2 * PASSCODE_TIME_PERIOD

C14_StaleCodeRejected ==
    \A u \in Users :
        (OneDraftNoActive(u) /\ ~Expired(Drafts(store, u)[1])) =>
            LET s == Drafts(store, u)[1].blob.secret
                fresh == Outcome("ConfirmEnable", u, StrPasscode(AuthenticatorCode(s, now)))
            IN  /\ fresh.a.valid /\ fresh.a.errors = "" /\ Len(Active(fresh.store, u)) = 1
                /\ now >= TwoPeriods =>
                      LET stale == Outcome("ConfirmEnable", u,
                                       StrPasscode(AuthenticatorCode(s, now - TwoPeriods)))
                      IN  /\ ~stale.a.valid
                          /\ stale.a.errors = "Invalid TOTP passcode"
                          /\ stale.store = store

C14_Witness ==
    \E u \in Users :
        /\ OneDraftNoActive(u)
        /\ now >= TwoPeriods
        /\ Drafts(store, u)[1].blob.created <= now - TwoPeriods
        /\ ~Expired(Drafts(store, u)[1])
        /\ Outcome("ConfirmEnable", u,
                   StrPasscode(AuthenticatorCode(Drafts(store, u)[1].blob.secret,
                                                 now - TwoPeriods))).a.errors
             = "Invalid TOTP passcode"

(* C15: also when two ConfirmEnable requests of one user interleave store
   call by store call, no user ever has more than one 'totp' credential. *)
C15_AtMostOneActiveUnderRace == \A u \in Users : Len(Active(store, u)) <= 1

(* C16: when the user's draft has been removed since RequestEnable (the user
   has no draft at confirm time, and no 'totp' credential), ConfirmEnable
   with the passcode that was correct for the removed secret returns 'TOTP
   Secret Removed', leaves the action invalid and creates neither a 'totp'
   nor a 'totp-draft' credential. *)
\* the secrets issued and no longer held by any credential
RemovedSecrets ==
    Issued \ UNION {SecretsOf(Drafts(store, u)) \cup SecretsOf(Active(store, u)) : u \in Users}

C16_RemovedDraftReported ==
    \A u \in Users : \A p \in PasscodeInputs(now) :
        (Drafts(store, u) = <<>> /\ Active(store, u) = <<>>) =>
            LET r == Outcome("ConfirmEnable", u, p)
            IN  /\ r.a.errors = "TOTP Secret Removed"
                /\ ~r.a.valid
                /\ Active(r.store, u) = <<>>
                /\ Drafts(r.store, u) = <<>>

C16_Witness ==
    \E u \in Users : \E k \in RemovedSecrets :
        /\ Drafts(store, u) = <<>> /\ Active(store, u) = <<>>
        /\ Outcome("ConfirmEnable", u, StrPasscode(AuthenticatorCode(k, now))).a.errors
             = "TOTP Secret Removed"

(* C17: a ConfirmDisable for a user who has no 'totp' credential (such as a
   second call after a successful removal) returns no error payload, raises
   nothing and changes no credential, whatever the passcode. *)
C17_DisableTwiceIsQuiet ==
    \A u \in Users : \A p \in PasscodeInputs(now) :
        Active(store, u) = <<>> =>
            LET r == Outcome("ConfirmDisable", u, p)
            IN  r.a.errors = "" /\ r.a.pc = "done" /\ r.store = store

C17_Witness ==
    \E u \in Users : \E k \in RemovedSecrets :
        /\ Active(store, u) = <<>>
        /\ Outcome("ConfirmDisable", u, StrPasscode(AuthenticatorCode(k, now))).a.pc = "done"
        /\ Outcome("ConfirmDisable", u, StrPasscode(AuthenticatorCode(k, now))).store = store

(* C18: whenever a ConfirmDisable returns with the user still holding a
   'totp' credential, it has returned an error payload or left the action
   invalid. *)
C18_DisableNeverSilentlyKeepsActive ==
    \A u \in Users : \A p \in PasscodeInputs(now) :
        LET r == Outcome("ConfirmDisable", u, p)
        IN  Active(r.store, u) # <<>> => (r.a.errors # "" \/ ~r.a.valid)

(* C19: RequestEnable for a user who has a 'totp' credential leaves the
   action invalid and the store as it was: no draft is created or deleted
   and the 'totp' credential is unchanged. *)
C19_RequestEnableWhenActiveIsNoOp ==
    \A u \in Users :
        Active(store, u) # <<>> =>
            LET r == Outcome("RequestEnable", u, NoPasscode)
            IN  ~r.a.valid /\ ~r.a.used /\ r.store = store

C19_Witness ==
    \E u \in Users :
        /\ Active(store, u) # <<>>
        /\ Drafts(store, u) # <<>>
        /\ Expired(Drafts(store, u)[1])
        /\ Outcome("RequestEnable", u, NoPasscode).store = store

(* C20: RequestDisable changes no credential; it is valid exactly when the
   user has at least one 'totp' credential. *)
C20_RequestDisableChangesNothing ==
    \A u \in Targets :
        LET r == Outcome("RequestDisable", u, NoPasscode)
        IN  /\ r.store = store
            /\ ~r.a.used
            /\ r.a.pc = "done"
            /\ r.a.valid <=> (u \in Users /\ Active(store, u) # <<>>)

C20_Witness ==
    \E u \in Users :
        /\ Active(store, u) # <<>>
        /\ Drafts(store, u) # <<>>
        /\ Outcome("RequestDisable", u, NoPasscode).a.valid
        /\ Outcome("RequestDisable", u, NoPasscode).store = store
        /\ ~Outcome("RequestDisable", GhostUser, NoPasscode).a.valid

(* C21: a stored secret that cannot be base32-decoded never crashes
   ConfirmEnable or ConfirmDisable: the call returns (nothing is raised out
   of _submit) with an error and the action invalid, and no credential is
   created or deleted. *)
Undecodable(secret) == secret # NoSecret /\ b32decode_raises(PadToEight(secret))

C21_CorruptSecretFailsCleanly ==
    \A u \in Users : \A p \in PasscodeInputs(now) :
        /\ (Len(Active(store, u)) = 1 /\ Undecodable(Active(store, u)[1].blob.secret)) =>
              LET r == Outcome("ConfirmDisable", u, p)
              IN  r.a.pc = "done" /\ r.a.errors # "" /\ ~r.a.valid /\ r.store = store
        /\ (OneDraftNoActive(u) /\ json_loads_ok(Drafts(store, u)[1].blob)
               /\ Undecodable(Drafts(store, u)[1].blob.secret)) =>
              LET r == Outcome("ConfirmEnable", u, p)
              IN  r.a.pc = "done" /\ r.a.errors # "" /\ ~r.a.valid /\ r.store = store

(* C22: at login a 'totp' credential whose blob does not decode is passed
   over: the outcome is the one the user's other 'totp' credentials give,
   and when all of the user's 'totp' credentials are corrupt the login is
   rejected. *)
Decodable(cred) == ~generate_raises(cred.blob.secret)

WithoutCorrupt(st, u) ==
    [st EXCEPT ![u]["totp"] = SelectSeq(@, Decodable)]

C22_CorruptCredentialSkipped ==
    \A u \in Users : \A pw \in SubmittedPasswords(u) :
        (\E i \in 1..Len(Active(store, u)) : ~Decodable(Active(store, u)[i])) =>
            IF Active(WithoutCorrupt(store, u), u) # <<>>
            THEN authenticate(store, u, pw, now)
                   = authenticate(WithoutCorrupt(store, u), u, pw, now)
            ELSE authenticate(store, u, pw, now) # "ok"

C22_Witness ==
    \E u \in Users : \E pw \in SubmittedPasswords(u) :
        /\ Len(Active(store, u)) = 2
        /\ ~Decodable(Active(store, u)[1])
        /\ Decodable(Active(store, u)[2])
        /\ pw = UserPassword(u) \o AuthenticatorCode(Active(store, u)[2].blob.secret, now)
        /\ authenticate(store, u, pw, now) = "ok"

(* C23: only 'totp' credentials bring the passcode into the login: a user
   with no 'totp' credential, also one who holds a draft or credentials of
   other types, logs in with the full password as it is, and with nothing
   else. *)
C23_NoPasscodeWithoutActive ==
    \A u \in Users : \A pw \in SubmittedPasswords(u) :
        Active(store, u) = <<>> =>
            (authenticate(store, u, pw, now) = "ok" <=> pw = UserPassword(u))

C23_Witness ==
    \E u \in Users :
        /\ Active(store, u) = <<>>
        /\ Len(Drafts(store, u)) = 1
        /\ json_loads_ok(Drafts(store, u)[1].blob)
        /\ list_credentials(store, u, "cert") # <<>>
        /\ authenticate(store, u, UserPassword(u), now) = "ok"
        /\ authenticate(store, u,
                        UserPassword(u) \o AuthenticatorCode(Drafts(store, u)[1].blob.secret, now),
                        now) = "Invalid username or password"

(* C24: the outcome of a login of user u depends on u's own password and
   u's own 'totp' credentials only: in a store that agrees with this one on
   u's credentials and differs in another user's, the same request has the
   same outcome; a passcode generated from another user's secret does not
   authenticate u. *)
\* this store with the 'totp' credentials of a user other than u replaced
OtherStores(u) ==
    UNION {{[store EXCEPT ![v]["totp"] = x] :
                x \in {<<>>} \cup {<<Credential(v, "totp", TotpBlob(k))>> : k \in Issued}} :
           v \in Users \ {u}}

ForeignCodes(u) ==
    UNION {CurrentCodes(v) : v \in Users \ {u}} \ CurrentCodes(u)

C24_LoginDependsOnOwnCredentials ==
    \A u \in Users : \A pw \in SubmittedPasswords(u) :
        /\ \A st2 \in OtherStores(u) :
              authenticate(st2, u, pw, now) = authenticate(store, u, pw, now)
        /\ (Active(store, u) # <<>> /\ \E c \in ForeignCodes(u) : pw = UserPassword(u) \o c)
              => authenticate(store, u, pw, now) # "ok"

C24_Witness ==
    \E u \in Users : \E c \in ForeignCodes(u) : \E own \in CurrentCodes(u) :
        /\ authenticate(store, u, UserPassword(u) \o c, now) = "Invalid TOTP passcode"
        /\ authenticate(store, u, UserPassword(u) \o own, now) = "ok"

(* Vocabulary of the generator properties *)

Range(seq) == {seq[i] : i \in 1..Len(seq)}

\* the period bucket of time t
Bucket(t) == t \div PASSCODE_TIME_PERIOD

\* the passcode an authenticator shows for secret in bucket b
BucketCode(secret, b) == ZeroPadded(Hotp(secret.key, b))

\* _generate_totp_passcodes has been called and has returned
ListReturned == codec.fn = "_generate_totp_passcodes" /\ ~codec.raised

(* C25: the passcode that is current at time t is among the passcodes
   _generate_totp_passcodes(secret, n) returns at time t + 30 s, for every
   n >= 1. *)
C25_PreviousCodeInWindow ==
    (ListReturned /\ codec.n >= 1) =>
        generate_totp_passcode(codec.secret, codec.t - PASSCODE_TIME_PERIOD)
            \in Range(codec.passcodes)

C25_Witness ==
    /\ ListReturned
    /\ codec.n = 1
    /\ codec.t % PASSCODE_TIME_PERIOD = 0
    /\ codec.passcodes[2] = generate_totp_passcode(codec.secret, codec.t - PASSCODE_TIME_PERIOD)
    /\ codec.passcodes[1] # codec.passcodes[2]

(* C26: _generate_totp_passcodes(secret, n) at time t returns exactly n + 1
   passcodes, those of the buckets floor(t/30), floor(t/30) - 1, ...,
   floor(t/30) - n in this order; the code of the next bucket is not among
   them, and any time of the same bucket gives the same list. *)
C26_WindowIsCurrentFirst ==
    ListReturned =>
        /\ Len(codec.passcodes) = codec.n + 1
        /\ \A i \in 1..Len(codec.passcodes) :
              codec.passcodes[i] = BucketCode(codec.secret, Bucket(codec.t) - (i - 1))
        /\ BucketCode(codec.secret, Bucket(codec.t) + 1) \notin Range(codec.passcodes)
        /\ \A t2 \in (Bucket(codec.t) * PASSCODE_TIME_PERIOD)
                        ..(Bucket(codec.t) * PASSCODE_TIME_PERIOD + PASSCODE_TIME_PERIOD - 1) :
              generate_totp_passcodes(codec.secret, codec.n, t2) = codec.passcodes

C26_Witness ==
    /\ ListReturned
    /\ codec.n = 2
    /\ codec.t % PASSCODE_TIME_PERIOD = PASSCODE_TIME_PERIOD - 1
    /\ Len(codec.passcodes) = 3
    /\ Cardinality(Range(codec.passcodes)) = 3

(* C27: for every valid base32 secret, with or without its '=' signs, and
   every timestamp, the passcode generated (by either generator) is a text
   of exactly 6 decimal digits, with zeros in front where the number is
   small. *)
ValidBase32(secret) == secret # NoSecret /\ ~b32decode_raises(PadToEight(secret))

SixDigits(code) == Len(code) = PASSCODE_LENGTH /\ \A i \in 1..Len(code) : code[i] \in 0..9

C27_SixDigitsForEveryValidSecret ==
    (codec.fn # "none" /\ ValidBase32(codec.secret)) =>
        /\ ~codec.raised
        /\ Len(codec.passcodes) >= 1
        /\ \A i \in 1..Len(codec.passcodes) : SixDigits(codec.passcodes[i])

\* every passcode the recorded call returned is a text of 6 digits
ReturnedSixDigits ==
    /\ ~codec.raised
    /\ codec.passcodes # <<>>
    /\ \A i \in 1..Len(codec.passcodes) : SixDigits(codec.passcodes[i])

\* C27 as amended: the same for every valid base32 secret that decodes to at
\* least 16 bytes (128 bits).
C27_SixDigitsForLongEnoughSecret ==
    (codec.fn # "none" /\ ValidBase32(codec.secret) /\ ~totp_key_too_short(codec.secret)) =>
        ReturnedSixDigits

C27_Witness ==
    /\ codec.fn = "_generate_totp_passcodes"
    /\ codec.secret.pads > 0
    /\ ~totp_key_too_short(codec.secret)
    /\ ReturnedSixDigits
    /\ codec.passcodes[1][1] = 0
    /\ codec.passcodes = generate_totp_passcodes([codec.secret EXCEPT !.pads = 0], codec.n, codec.t)

\* u has a 'totp' credential and exactly one draft, well-formed and not
\* expired, for which p is the current passcode
ActiveAndOneDraft(u, p) ==
    /\ Active(store, u) # <<>>
    /\ Len(Drafts(store, u)) = 1
    /\ json_loads_ok(Drafts(store, u)[1].blob)
    /\ ~Expired(Drafts(store, u)[1])
    /\ ~generate_raises(Drafts(store, u)[1].blob.secret)
    /\ CurrentFor(p, Drafts(store, u)[1].blob.secret)

(* C28: ConfirmEnable with the correct passcode for the user's single draft,
   served while the user already has a 'totp' credential, promotes the draft
   and replaces the prior credential: afterwards the user has exactly one
   'totp' credential, holding the draft's secret, and no draft. *)
C28_ConfirmEnableReplacesActive ==
    \A u \in Users : \A p \in PasscodeInputs(now) :
        ActiveAndOneDraft(u, p) =>
            LET r == Outcome("ConfirmEnable", u, p)
            IN  /\ Len(Active(r.store, u)) = 1
                /\ Active(r.store, u)[1].blob.secret = Drafts(store, u)[1].blob.secret
                /\ Drafts(r.store, u) = <<>>

\* C28 as amended: such a ConfirmEnable is turned down: the action is
\* invalid, no error is returned, and the 'totp' credential and the draft
\* are left as they were.
C28_ConfirmEnableWhenActiveIsNoOp ==
    \A u \in Users : \A p \in PasscodeInputs(now) :
        ActiveAndOneDraft(u, p) =>
            LET r == Outcome("ConfirmEnable", u, p)
            IN  /\ r.a.pc = "done"
                /\ ~r.a.valid
                /\ r.a.errors = ""
                /\ r.store = store

C28_Witness ==
    \E u \in Users : \E p \in PasscodeInputs(now) :
        /\ ActiveAndOneDraft(u, p)
        /\ Len(Active(store, u)) = 1
        /\ Active(store, u)[1].blob.secret # Drafts(store, u)[1].blob.secret
        /\ Outcome("ConfirmEnable", u, p).store = store

\* ConfirmEnable(u, p) fails for lack of a single valid draft
FailsForLackOfDraft(u, p) ==
    /\ Active(store, u) = <<>>
    /\ Outcome("ConfirmEnable", u, p).a.pc = "done"
    /\ Outcome("ConfirmEnable", u, p).a.errors = "TOTP Secret Removed"

\* the store after that ConfirmEnable and one RequestEnable
AfterRetry(u, p) ==
    run(NewAction("RequestEnable", u, NoPasscode),
        Outcome("ConfirmEnable", u, p).store, now, nextSecret)

\* the second ConfirmEnable, with the passcode current for the draft the
\* RequestEnable left
SecondConfirm(u, p) ==
    LET r2 == AfterRetry(u, p)
        d  == Drafts(r2.store, u)
    IN  run(NewAction("ConfirmEnable", u,
                      StrPasscode(AuthenticatorCode(d[Len(d)].blob.secret, now))),
            r2.store, now, nextSecret + 1)

(* C29: for a user with no 'totp' credential and any number of drafts, a
   ConfirmEnable that fails for lack of a single valid draft, then one
   RequestEnable, then one ConfirmEnable with the passcode current for the
   draft that RequestEnable left, ends with the user holding a 'totp'
   credential. *)
C29_RetryEndsActive ==
    \A u \in Users : \A p \in PasscodeInputs(now) :
        FailsForLackOfDraft(u, p) =>
            /\ AfterRetry(u, p).a.pc = "done"
            /\ Len(Drafts(AfterRetry(u, p).store, u)) = 1
            /\ SecondConfirm(u, p).a.valid
            /\ Len(Active(SecondConfirm(u, p).store, u)) = 1
            /\ Drafts(SecondConfirm(u, p).store, u) = <<>>

(* C30: in every reachable state, interleaved requests included, in which the
   user has at least one 'totp' credential, a ConfirmDisable with the
   passcode currently valid for one of the user's 'totp' secrets leaves the
   user with no 'totp' credential. *)
C30_DisableAlwaysRemoves ==
    \A u \in Users : \A p \in PasscodeInputs(now) :
        (Active(store, u) # <<>> /\ MatchesActive(p, u)) =>
            Active(Outcome("ConfirmDisable", u, p).store, u) = <<>>

\* no request is in flight
Quiescent == \A w \in Workers : ~Running(procs[w])

(* C31: starting from the empty store, whatever RequestEnable, ConfirmEnable
   and ConfirmDisable requests of one user are served, interleaved store call
   by store call, once every request in flight has completed no user has both
   a 'totp' and a 'totp-draft' credential. *)
C31_DraftAndActiveExclusive ==
    Quiescent =>
        \A u \in Users : ~(Active(store, u) # <<>> /\ Drafts(store, u) # <<>>)

\* the places of u's 'totp' credentials in st2 that st1 does not hold
AddedActive(st1, st2, u) ==
    {i \in 1..Len(Active(st2, u)) :
        i > Len(Active(st1, u)) \/ Active(st2, u)[i] # Active(st1, u)[i]}

(* C32: a 'totp' credential is only ever created by promotion: a request
   that adds a 'totp' credential for a user is a ConfirmEnable for that user
   whose passcode matches the secret of the user's single draft, and the
   credential added holds that secret; a user with neither a draft nor a
   'totp' credential has no 'totp' credential after any one request. *)
C32_ActiveOnlyByPromotion ==
    \A u \in Users : \A v \in Targets : \A op \in Requests : \A p \in PasscodeInputs(now) :
        LET r == Outcome(op, v, p)
        IN  /\ AddedActive(store, r.store, u) # {} =>
                  /\ op = "ConfirmEnable" /\ v = u
                  /\ Len(Drafts(store, u)) = 1
                  /\ CurrentFor(p, Drafts(store, u)[1].blob.secret)
                  /\ \A i \in AddedActive(store, r.store, u) :
                        Active(r.store, u)[i].blob.secret = Drafts(store, u)[1].blob.secret
            /\ (Active(store, u) = <<>> /\ Drafts(store, u) = <<>>) =>
                  Active(r.store, u) = <<>>

C32_Witness ==
    \E u \in Users : \E p \in PasscodeInputs(now) :
        /\ Len(Drafts(store, u)) = 1
        /\ Active(store, u) = <<>>
        /\ AddedActive(store, Outcome("ConfirmEnable", u, p).store, u) = {1}
        /\ \E q \in PasscodeInputs(now) :
              /\ Truthy(q) /\ q # p
              /\ AddedActive(store, Outcome("ConfirmEnable", u, q).store, u) = {}

\* the ways of submitting the code without the zeros in front of it
WithoutLeadingZeros(code) ==
    {IntPasscode(DigitsValue(code)), StrPasscode(Decimal(DigitsValue(code)))}

\* u's one credential of the kind the request reads, whose current code
\* starts with a zero
LeadingZeroCode(u, creds) ==
    /\ Len(creds) = 1
    /\ creds[1].type = "totp" \/ (json_loads_ok(creds[1].blob) /\ Active(store, u) = <<>>)
    /\ ~generate_raises(creds[1].blob.secret)
    /\ AuthenticatorCode(creds[1].blob.secret, now)[1] = 0

(* C34: passcodes are compared as strings, never as numbers: when the code
   generated for the credential starts with a zero, the same number
   submitted as an integer or as a string without the zero is rejected by
   ConfirmEnable, ConfirmDisable and the login, and the 6-character string is
   accepted. *)
C34_ComparedAsStrings ==
    \A u \in Users :
        /\ LeadingZeroCode(u, Drafts(store, u)) =>
              LET code == AuthenticatorCode(Drafts(store, u)[1].blob.secret, now)
              IN  /\ \A p \in WithoutLeadingZeros(code) :
                        /\ Outcome("ConfirmEnable", u, p).a.errors = "Invalid TOTP passcode"
                        /\ Outcome("ConfirmEnable", u, p).store = store
                  /\ Outcome("ConfirmEnable", u, StrPasscode(code)).a.valid
                  /\ Len(Active(Outcome("ConfirmEnable", u, StrPasscode(code)).store, u)) = 1
        /\ LeadingZeroCode(u, Active(store, u)) =>
              LET code == AuthenticatorCode(Active(store, u)[1].blob.secret, now)
              IN  /\ \A p \in WithoutLeadingZeros(code) :
                        /\ Outcome("ConfirmDisable", u, p).a.errors = "Invalid TOTP passcode"
                        /\ Outcome("ConfirmDisable", u, p).store = store
                  /\ Active(Outcome("ConfirmDisable", u, StrPasscode(code)).store, u) = <<>>
                  /\ authenticate(store, u, UserPassword(u) \o Decimal(DigitsValue(code)), now) # "ok"
                  /\ authenticate(store, u, UserPassword(u) \o code, now) = "ok"

C34_Witness ==
    \E u \in Users :
        /\ LeadingZeroCode(u, Active(store, u))
        /\ LET code == AuthenticatorCode(Active(store, u)[1].blob.secret, now)
           IN  /\ Len(Decimal(DigitsValue(code))) < PASSCODE_LENGTH
               /\ DigitsValue(code) > 0
               /\ Truthy(IntPasscode(DigitsValue(code)))
               /\ Active(Outcome("ConfirmDisable", u, IntPasscode(DigitsValue(code))).store, u)
                     = Active(store, u)
               /\ Active(Outcome("ConfirmDisable", u, StrPasscode(code)).store, u) = <<>>

\* u has no 'totp' credential and one well-formed draft, created age seconds ago
OneDraftAged(u, age) ==
    /\ OneDraftNoActive(u)
    /\ json_loads_ok(Drafts(store, u)[1].blob)
    /\ Drafts(store, u)[1].blob.created = now - age

(* C36: in RequestEnable a draft is expired only when it is strictly older
   than cred_expiry minutes: a draft created exactly cred_expiry minutes ago
   is kept and reused, and a draft one second older is deleted and replaced
   by a fresh one. *)
C36_ExpiryBoundary ==
    \A u \in Users :
        LET r == Outcome("RequestEnable", u, NoPasscode)
        IN  /\ OneDraftAged(u, cred_expiry * 60) =>
                  r.store = store /\ ~r.a.used
            /\ OneDraftAged(u, cred_expiry * 60 + 1) =>
                  /\ r.a.used
                  /\ Len(Drafts(r.store, u)) = 1
                  /\ Drafts(r.store, u)[1].blob = DraftBlob(b32encode(nextSecret), now)
                  /\ Drafts(store, u)[1].blob.secret \notin SecretsOf(Drafts(r.store, u))

C36_Witness ==
    \E u, v \in Users :
        /\ OneDraftAged(u, cred_expiry * 60)
        /\ Outcome("RequestEnable", u, NoPasscode).store = store
        /\ OneDraftAged(v, cred_expiry * 60 + 1)
        /\ Outcome("RequestEnable", v, NoPasscode).a.used

\* the part of the submitted password that is checked as the password
PasswordPart(u, pw) ==
    IF Active(store, u) # <<>> THEN SliceButLast(pw, PASSCODE_LENGTH) ELSE pw

(* C37: authenticate checks the password before any passcode: with a wrong
   password part the login is rejected with 'Invalid username or password'
   whether or not the passcode is correct and no 'totp' credential is
   evaluated; 'Invalid TOTP passcode' is returned only when the password part
   has been accepted. *)
C37_PasswordCheckedFirst ==
    \A u \in Users : \A pw \in SubmittedPasswords(u) :
        /\ PasswordPart(u, pw) # UserPassword(u) =>
              /\ authenticate(store, u, pw, now) = "Invalid username or password"
              /\ credentials_evaluated(store, u, pw, now) = 0
        /\ authenticate(store, u, pw, now) = "Invalid TOTP passcode" =>
              /\ PasswordPart(u, pw) = UserPassword(u)
              /\ credentials_evaluated(store, u, pw, now) = Len(Active(store, u))

C37_Witness ==
    \E u \in Users : \E pw, pw2 \in SubmittedPasswords(u) :
        /\ Active(store, u) # <<>>
        /\ PasswordPart(u, pw) # UserPassword(u)
        /\ SliceLast(pw, PASSCODE_LENGTH) \in CurrentCodes(u)
        /\ authenticate(store, u, pw, now) = "Invalid username or password"
        /\ PasswordPart(u, pw2) = UserPassword(u)
        /\ authenticate(store, u, pw2, now) = "Invalid TOTP passcode"

\* a POST has answered after calling get_provisioning_uri
ReachedProvisioningUri ==
    posts.pc = "idle" /\ ~posts.delete /\ posts.status \in {"ok", "raised"}

(* C33: whenever EditMFA.post has reached get_provisioning_uri, on the
   new-task path and on the reuse-existing-task path, the user had exactly
   one 'totp-draft' credential there, and reading creds[0] did not fail;
   also when a token submission of the same user's pending task came in
   between. *)
C33_ProvisioningUriFindsOneDraft ==
    ReachedProvisioningUri =>
        /\ Len(posts.creds) = 1
        /\ posts.status = "ok"
        /\ posts.otpauth = posts.creds[1].blob.secret

\* the tasks of u that are uncompleted, uncancelled and less than cred_expiry
\* minutes old
FreshPending(u) ==
    {i \in 1..Len(tasks) :
        /\ tasks[i].user = u
        /\ ~tasks[i].completed /\ ~tasks[i].cancelled
        /\ now - tasks[i].created_on < cred_expiry * 60}

\* i is u's only such task, it is for the same kind of request and has
\* exactly one token
Reusable(u, delete, i) ==
    /\ FreshPending(u) = {i}
    /\ tasks[i].delete = delete
    /\ tasks[i].tokens = 1

\* the whole request served without interruption: the tasks, the store and
\* the response
Served(u, delete, policy) ==
    LET r == edit_mfa(tasks, store, u, delete, now, nextSecret, policy)
    IN  [tasks |-> r.tasks, store |-> r.store,
         post  |-> IF r.post.pc = "uri" THEN post_otpauth(r.post, r.store) ELSE r.post]

(* C35: EditMFA.post and EditMFA.delete reuse a pending task exactly when the
   user has exactly one edit_mfa task that is uncompleted, uncancelled and
   less than cred_expiry minutes old, its delete flag is the request's and it
   has exactly one token: then the token of that task is returned and no
   credential or task is touched; in every other case process_actions is
   called for a new task. *)
C35_ReuseExactlyWhenOnePendingTask ==
    \A u \in Users : \A delete \in BOOLEAN : \A policy \in DuplicatePolicies :
        LET r == Served(u, delete, policy)
        IN  IF \E i \in 1..Len(tasks) : Reusable(u, delete, i)
            THEN /\ r.post.reused
                 /\ r.post.status = "ok"
                 /\ Reusable(u, delete, r.post.task)
                 /\ r.store = store
                 /\ r.tasks = tasks
            ELSE /\ ~r.post.reused
                 /\ r.tasks = process_actions(tasks, store, u, delete, now, nextSecret, policy).tasks
                 /\ r.store = process_actions(tasks, store, u, delete, now, nextSecret, policy).store

C35_Witness ==
    /\ Len(tasks) = 2
    /\ Reusable("u1", FALSE, 2)
    /\ tasks[1].user = "u1" /\ now - tasks[1].created_on >= cred_expiry * 60
    /\ Served("u1", FALSE, "cancel").post.task = 2
    /\ ~Served("u1", TRUE, "cancel").post.reused
    /\ Len(Served("u1", TRUE, "cancel").tasks) = 3

====
